---- MODULE Spec2Model ----
(***************************************************************************)
(* Model of wgpu-native/src/hub.rs: the generational-index identity        *)
(* allocator (IdentityManager), the epoch-checked Storage, and the         *)
(* Registry that combines them behind a Mutex and an RwLock.               *)
(*                                                                         *)
(* Indices are 0-based as in the source; epochs[i] of the source is        *)
(* epochs[i + 1] here because TLA+ sequences are 1-based.  The 'local'     *)
(* cargo feature is modelled as enabled (the Registry owns an identity     *)
(* manager); cfg!(debug_assertions) is a build choice fixed at Init.       *)
(***************************************************************************)
EXTENDS Integers, Sequences, FiniteSets, TLC

\* ---------------------------------------------------------------- bounds
\* Largest number of slots the identity manager may grow to.
MaxSlots == 2
\* Largest epoch a slot may reach (a handle is freed only below it).
MaxEpoch == 3
\* register_local calls each worker thread makes in the scripted runs.
MaxCalls == 2

Threads  == {"t1", "t2"}
Main     == "t1"
Payloads == {"A", "B"}

Indices  == 0 .. (MaxSlots - 1)
Epochs   == 1 .. MaxEpoch
Handles  == [index : Indices, epoch : Epochs]

NoThread == "nobody"
NoValue  == "none"
NoId     == [index |-> 0, epoch |-> 0]
NoEntry  == [value |-> NoValue, epoch |-> 0]
NoCall   == [op |-> "none", id |-> NoId, value |-> NoValue]
NoResult == [op |-> "none", id |-> NoId, value |-> NoValue, ok |-> TRUE]

VARIABLES
    free,              \* IdentityManager.free   : Vec<Index>
    epochs,            \* IdentityManager.epochs : Vec<Epoch>
    map,               \* Storage.map : VecMap<(T, Epoch)>
    debug_assertions,  \* cfg!(debug_assertions) of the build
    idLock,            \* Registry.identity : Mutex, the thread holding it
    wLock,             \* Registry.data : RwLock, the thread holding it for write
    rLock,             \* Registry.data : RwLock, the threads holding it for read
    pc,                \* each thread's position inside its current call
    call,              \* each thread's current call: operation, id, value
    last,              \* the call that completed most recently, with its outcome
                       \* (the concurrent runs record only the operation and ok)
    owned,             \* handles each thread got from register_local and still holds
    kept,              \* handles registered before the worker threads started
    calls,             \* register_local calls each worker has made
    started,           \* the worker threads have been started
    startCount,        \* number of storage entries when the workers started
    freed,             \* handles IdentityManager::free has accepted
    minted,            \* identity manager on its own: handles alloc has returned
    issued,            \* identity manager on its own: per index, the epoch of the
                       \* handle alloc returned last (0: none)
    run,               \* identity manager on its own: handles alloc returned since
                       \* the last accepted free, in order
    peak               \* identity manager on its own: the largest number of
                       \* handles that were allocated and not yet freed at once

idm      == <<free, epochs>>
locks    == <<idLock, wLock, rLock>>
threads  == <<pc, call>>
script   == <<owned, kept, calls, started, startCount>>
history  == <<minted, issued, run, peak>>
ghost    == <<freed, minted, issued, run, peak>>
vars     == <<free, epochs, map, debug_assertions, idLock, wLock, rLock, pc, call,
              last, owned, kept, calls, started, startCount, freed, minted, issued, run,
              peak>>

Range(s) == {s[k] : k \in 1 .. Len(s)}
Front(s) == SubSeq(s, 1, Len(s) - 1)
Id(index, epoch) == [index |-> index, epoch |-> epoch]

\* ------------------------------------------------------- IdentityManager
\* alloc(): match self.free.pop()
AllocPops(f) == Len(f) > 0

\* alloc() that forgets the slot's current epoch
AllocIdEpochOne(f, e) ==
    IF AllocPops(f) THEN Id(f[Len(f)], 1) ELSE Id(Len(e), 1)

\* alloc() that takes the oldest free index while pop() drops the newest
AllocIdOldest(f, e) ==
    IF AllocPops(f) THEN Id(f[1], e[f[1] + 1]) ELSE Id(Len(e), 1)

\* Some(index) => I::new(index, self.epochs[index as usize])
\* None        => I::new(self.epochs.len() as Index, 1)
AllocId(f, e) ==
    IF AllocPops(f)
    THEN Id(f[Len(f)], e[f[Len(f)] + 1])
    ELSE Id(Len(e), 1)

\* alloc() that reads the last free index without removing it
AllocFreeKeep(f) == f

\* the free list after alloc(): pop() removes the last element
AllocFree(f) == IF AllocPops(f) THEN Front(f) ELSE f

\* alloc() that appends a slot on every call
AllocEpochsAlways(f, e) == Append(e, 1)

\* the epochs after alloc(): self.epochs.push(id.epoch()) when nothing was popped
AllocEpochs(f, e) == IF AllocPops(f) THEN e ELSE Append(e, 1)

\* free() that does not compare the epoch
FreeOkIndexOnly(f, e, dbg, id) ==
    /\ dbg => id.index \notin Range(f)
    /\ id.index < Len(e)

\* free(): the assertions.  self.epochs[index] panics when index is out of range.
FreeOk(f, e, dbg, id) ==
    /\ dbg => id.index \notin Range(f)
    /\ id.index < Len(e)
    /\ e[id.index + 1] = id.epoch

\* free() that leaves the epoch as it was
FreeEpochsKeep(e, id) == e

\* free(): *pe += 1
FreeEpochs(e, id) == [e EXCEPT ![id.index + 1] = @ + 1]

\* free() that does not give the index back
FreeFreeDrop(f, id) == f

\* free(): self.free.push(index)
FreeFree(f, id) == Append(f, id.index)

\* the slots the identity manager has handed out: those not in the free list
Allocated(f, e) == {i \in 0 .. (Len(e) - 1) : i \notin Range(f)}

\* --------------------------------------------------------------- Storage
\* VecMap occupancy at an index
Occupied(m, index) == m[index] # NoEntry

\* Storage::index / index_mut: self.map[i] panics on a vacant slot, then
\* assert_eq!(epoch, id.epoch())
IndexOk(m, id) == Occupied(m, id.index) /\ m[id.index].epoch = id.epoch

\* the payload the returned reference points at
IndexValue(m, id) == m[id.index].value

\* Storage::contains
Contains(m, id) == Occupied(m, id.index) /\ m[id.index].epoch = id.epoch

\* VecMap::insert(index, (value, epoch)): stores, replacing what was there
Insert(m, id, value) == [m EXCEPT ![id.index] = [value |-> value, epoch |-> id.epoch]]

\* remove that leaves the entry in place
RemoveKeep(m, index) == m

\* VecMap::remove(index)
Remove(m, index) == [m EXCEPT ![index] = NoEntry]

\* the indices that hold an entry
Present(m) == {i \in Indices : Occupied(m, i)}

\* number of entries in the storage
Count(m) == Cardinality({i \in Indices : Occupied(m, i)})

\* ----------------------------------------------------------------- locks
\* a write lock that does not wait for the readers
CanWriteOverReaders == wLock = NoThread

\* parking_lot RwLock::write(): no writer and no reader
CanWrite == wLock = NoThread /\ rLock = {}

\* parking_lot RwLock::read(): no writer
CanRead == wLock = NoThread

\* parking_lot Mutex::lock()
CanLock == idLock = NoThread


\* ------------------------------------------------- calls run on their own
\* the registry a call works on
Reg == [free |-> free, epochs |-> epochs, map |-> map]

\* Registry::register(id, value) run to its end: insert, then assert!(old.is_none())
RegisterRun(r, id, value) ==
    [reg   |-> [r EXCEPT !.map = Insert(r.map, id, value)],
     ok    |-> ~Occupied(r.map, id.index),
     id    |-> id,
     value |-> value]

\* Registry::register_local(value) run to its end: alloc, then register(id, value)
RegisterLocalRun(r, value) ==
    RegisterRun([r EXCEPT !.free = AllocFree(r.free),
                          !.epochs = AllocEpochs(r.free, r.epochs)],
                AllocId(r.free, r.epochs), value)

\* Registry::unregister(id) run to its end: remove(..).unwrap(), assert_eq!(epoch,
\* id.epoch()), then free(id) with its assertions
UnregisterRun(r, dbg, id) ==
    IF ~Occupied(r.map, id.index)
    THEN [reg |-> r, ok |-> FALSE, id |-> id, value |-> NoValue]
    ELSE IF r.map[id.index].epoch # id.epoch \/ ~FreeOk(r.free, r.epochs, dbg, id)
    THEN [reg |-> [r EXCEPT !.map = Remove(r.map, id.index)],
          ok |-> FALSE, id |-> id, value |-> NoValue]
    ELSE [reg |-> [free   |-> FreeFree(r.free, id),
                   epochs |-> FreeEpochs(r.epochs, id),
                   map    |-> Remove(r.map, id.index)],
          ok |-> TRUE, id |-> id, value |-> r.map[id.index].value]

\* a caller's HUB.<kind>.read()[id] run to its end
LookupRun(r, id) ==
    [reg |-> r, ok |-> IndexOk(r.map, id), id |-> id,
     value |-> IF IndexOk(r.map, id) THEN IndexValue(r.map, id) ELSE NoValue]

\* the outcome of a call, as it is recorded in last
Outcome(op, res) == [op |-> op, id |-> res.id, value |-> res.value, ok |-> res.ok]

\* the bounded identity manager has a slot left for one more alloc()
Room(f, e) == Len(f) > 0 \/ Len(e) < MaxSlots

\* the handles alloc() has returned and free() has not accepted since
Live(mt, fr) == mt \ fr

\* what alloc() returning id adds to the history
NoteAlloc(id) ==
    /\ minted' = minted \cup {id}
    /\ issued' = [issued EXCEPT ![id.index] = id.epoch]
    /\ run' = Append(run, id)
    /\ peak' = IF Cardinality(Live(minted \cup {id}, freed)) > peak
               THEN Cardinality(Live(minted \cup {id}, freed))
               ELSE peak
    /\ UNCHANGED freed

\* what free(id) adds to the history when it accepts id (ok)
NoteFree(id, ok) ==
    /\ freed' = IF ok THEN freed \cup {id} ELSE freed
    /\ run' = IF ok THEN <<>> ELSE run
    /\ UNCHANGED <<minted, issued, peak>>

\* -------------------------------------------- sequential calls (one by one)
Register(id, value) ==
    /\ map' = RegisterRun(Reg, id, value).reg.map
    /\ last' = Outcome("register", RegisterRun(Reg, id, value))
    /\ UNCHANGED <<idm, debug_assertions, locks, threads, script, ghost>>

RegisterLocal(value) ==
    /\ Room(free, epochs)
    /\ free' = RegisterLocalRun(Reg, value).reg.free
    /\ epochs' = RegisterLocalRun(Reg, value).reg.epochs
    /\ map' = RegisterLocalRun(Reg, value).reg.map
    /\ last' = Outcome("register_local", RegisterLocalRun(Reg, value))
    /\ UNCHANGED <<debug_assertions, locks, threads, script, ghost>>

Unregister(id) ==
    /\ id.epoch < MaxEpoch
    /\ free' = UnregisterRun(Reg, debug_assertions, id).reg.free
    /\ epochs' = UnregisterRun(Reg, debug_assertions, id).reg.epochs
    /\ map' = UnregisterRun(Reg, debug_assertions, id).reg.map
    /\ last' = Outcome("unregister", UnregisterRun(Reg, debug_assertions, id))
    /\ freed' = IF UnregisterRun(Reg, debug_assertions, id).ok THEN freed \cup {id} ELSE freed
    /\ UNCHANGED <<debug_assertions, locks, threads, script, history>>

Lookup(id) ==
    /\ last' = Outcome("lookup", LookupRun(Reg, id))
    /\ UNCHANGED <<idm, map, debug_assertions, locks, threads, script, ghost>>

\* IdentityManager::alloc on an identity manager used on its own
Alloc ==
    /\ Room(free, epochs)
    /\ free' = AllocFree(free)
    /\ epochs' = AllocEpochs(free, epochs)
    /\ last' = [op |-> "alloc", id |-> NoId, value |-> NoValue, ok |-> TRUE]
    /\ NoteAlloc(AllocId(free, epochs))
    /\ UNCHANGED <<map, debug_assertions, locks, threads, script>>

\* IdentityManager::free(id) on an identity manager used on its own
Free(id) ==
    /\ id.epoch < MaxEpoch
    /\ IF FreeOk(free, epochs, debug_assertions, id)
       THEN /\ epochs' = FreeEpochs(epochs, id)
            /\ free' = FreeFree(free, id)
       ELSE UNCHANGED idm
    /\ NoteFree(id, FreeOk(free, epochs, debug_assertions, id))
    /\ last' = [op |-> "free", id |-> NoId, value |-> NoValue,
                ok |-> FreeOk(free, epochs, debug_assertions, id)]
    /\ UNCHANGED <<map, debug_assertions, locks, threads, script>>

\* ------------------------------------- concurrent calls, lock by lock
AllIdle == \A u \in Threads : pc[u] = "idle"

\* a call begins
Begin(t, op, id, value, first) ==
    /\ pc[t] = "idle"
    /\ pc' = [pc EXCEPT ![t] = first]
    /\ call' = [call EXCEPT ![t] = [op |-> op, id |-> id, value |-> value]]

\* a call ends: it returns (ok) or unwinds from a failed assertion (~ok)
Complete(t, ok) ==
    /\ pc' = [pc EXCEPT ![t] = "idle"]
    /\ call' = [call EXCEPT ![t] = NoCall]
    /\ last' = [op |-> call[t].op, id |-> NoId, value |-> NoValue, ok |-> ok]

\* threads that have begun register_local and not yet allocated
Pending == Cardinality({u \in Threads : pc[u] \in {"rl_lock", "rl_alloc"}})

\* the bounded identity manager has a slot left for one more alloc()
HasRoom == Pending + 1 <= (MaxSlots - Len(epochs)) + Len(free)

\* Registry::register: self.data.write()
RegWrite(t) ==
    /\ pc[t] = "reg_write"
    /\ CanWrite
    /\ wLock' = t
    /\ pc' = [pc EXCEPT ![t] = "reg_insert"]
    /\ UNCHANGED <<idm, map, debug_assertions, idLock, rLock, call, last, script, ghost>>

\* Registry::register: .map.insert(id.index(), (value, id.epoch())); the guard is
\* dropped at the end of the statement; assert!(old.is_none()); register_local
\* then returns id
RegInsert(t) ==
    /\ pc[t] = "reg_insert"
    /\ map' = Insert(map, call[t].id, call[t].value)
    /\ wLock' = NoThread
    /\ Complete(t, ~Occupied(map, call[t].id.index))
    /\ owned' = IF call[t].op = "register_local" /\ ~Occupied(map, call[t].id.index)
                THEN [owned EXCEPT ![t] = @ \cup {call[t].id}]
                ELSE owned
    /\ UNCHANGED <<idm, debug_assertions, idLock, rLock, kept, calls, started,
                   startCount, ghost>>

\* Registry::register_local: self.identity.lock()
RlLock(t) ==
    /\ pc[t] = "rl_lock"
    /\ CanLock
    /\ idLock' = t
    /\ pc' = [pc EXCEPT ![t] = "rl_alloc"]
    /\ UNCHANGED <<idm, map, debug_assertions, wLock, rLock, call, last, script, ghost>>

\* register_local that keeps the identity guard alive across self.register
RlAllocHoldsLock(t) ==
    /\ pc[t] = "rl_alloc"
    /\ free' = AllocFree(free)
    /\ epochs' = AllocEpochs(free, epochs)
    /\ call' = [call EXCEPT ![t].id = AllocId(free, epochs)]
    /\ pc' = [pc EXCEPT ![t] = "reg_write"]
    /\ UNCHANGED <<map, debug_assertions, locks, last, script, ghost>>

\* Registry::register_local: .alloc(); the guard is dropped at the end of the
\* statement; self.register(id, value) follows
RlAlloc(t) ==
    /\ pc[t] = "rl_alloc"
    /\ free' = AllocFree(free)
    /\ epochs' = AllocEpochs(free, epochs)
    /\ call' = [call EXCEPT ![t].id = AllocId(free, epochs)]
    /\ idLock' = NoThread
    /\ pc' = [pc EXCEPT ![t] = "reg_write"]
    /\ UNCHANGED <<map, debug_assertions, wLock, rLock, last, script, ghost>>

\* Registry::unregister: self.data.write()
UnWrite(t) ==
    /\ pc[t] = "un_write"
    /\ CanWrite
    /\ wLock' = t
    /\ pc' = [pc EXCEPT ![t] = "un_remove"]
    /\ UNCHANGED <<idm, map, debug_assertions, idLock, rLock, call, last, script, ghost>>

\* Registry::unregister: .map.remove(id.index()).unwrap(); the guard is dropped at
\* the end of the statement (or by unwinding); assert_eq!(epoch, id.epoch())
UnRemove(t) ==
    /\ pc[t] = "un_remove"
    /\ map' = Remove(map, call[t].id.index)
    /\ wLock' = NoThread
    /\ IF IndexOk(map, call[t].id)
       THEN /\ pc' = [pc EXCEPT ![t] = "un_lock"]
            /\ call' = [call EXCEPT ![t].value = map[call[t].id.index].value]
            /\ UNCHANGED last
       ELSE Complete(t, FALSE)
    /\ UNCHANGED <<idm, debug_assertions, idLock, rLock, script, ghost>>

\* Registry::unregister: self.identity.lock()
UnLock(t) ==
    /\ pc[t] = "un_lock"
    /\ CanLock
    /\ idLock' = t
    /\ pc' = [pc EXCEPT ![t] = "un_free"]
    /\ UNCHANGED <<idm, map, debug_assertions, wLock, rLock, call, last, script, ghost>>

\* Registry::unregister: .free(id); the guard is dropped at the end of the
\* statement (or by unwinding); value is returned
UnFree(t) ==
    /\ pc[t] = "un_free"
    /\ idLock' = NoThread
    /\ IF FreeOk(free, epochs, debug_assertions, call[t].id)
       THEN /\ epochs' = FreeEpochs(epochs, call[t].id)
            /\ free' = FreeFree(free, call[t].id)
            /\ freed' = freed \cup {call[t].id}
            /\ Complete(t, TRUE)
       ELSE /\ UNCHANGED <<idm, freed>>
            /\ Complete(t, FALSE)
    /\ UNCHANGED <<map, debug_assertions, wLock, rLock, script, history>>

\* a caller's HUB.<kind>.read()
RdLock(t) ==
    /\ pc[t] = "rd_lock"
    /\ CanRead
    /\ rLock' = rLock \cup {t}
    /\ pc' = [pc EXCEPT ![t] = "rd_index"]
    /\ UNCHANGED <<idm, map, debug_assertions, idLock, wLock, call, last, script, ghost>>

\* ...[id]: Storage::index; a failed assertion unwinds and drops the read guard
RdIndex(t) ==
    /\ pc[t] = "rd_index"
    /\ IF IndexOk(map, call[t].id)
       THEN /\ pc' = [pc EXCEPT ![t] = "rd_hold"]
            /\ call' = [call EXCEPT ![t].value = IndexValue(map, call[t].id)]
            /\ UNCHANGED <<rLock, last>>
       ELSE /\ rLock' = rLock \ {t}
            /\ Complete(t, FALSE)
    /\ UNCHANGED <<idm, map, debug_assertions, idLock, wLock, script, ghost>>

\* a caller that is done with the reference and leaks the read guard
RdReleaseKeepsGuard(t) ==
    /\ pc[t] = "rd_hold"
    /\ Complete(t, TRUE)
    /\ UNCHANGED <<idm, map, debug_assertions, locks, script, ghost>>

\* the caller is done with the reference and drops the read guard
RdRelease(t) ==
    /\ pc[t] = "rd_hold"
    /\ rLock' = rLock \ {t}
    /\ Complete(t, TRUE)
    /\ UNCHANGED <<idm, map, debug_assertions, idLock, wLock, script, ghost>>

\* the steps a call takes once it has begun
Step(t) ==
    \/ RegWrite(t)
    \/ RegInsert(t)
    \/ RlLock(t)
    \/ RlAlloc(t)
    \/ UnWrite(t)
    \/ UnRemove(t)
    \/ UnLock(t)
    \/ UnFree(t)
    \/ RdLock(t)
    \/ RdIndex(t)
    \/ RdRelease(t)

\* ---------------------------------------- the scripted run on live handles
\* handles some thread holds: registered and not yet given to unregister
Held == kept \cup UNION {owned[t] : t \in Threads}

\* the payload a thread registers
PayloadOf(t) == IF t = Main THEN "A" ELSE "B"

\* before the workers start, the main thread registers what stays for the run
SetupRegisterLocal(value) ==
    /\ ~started
    /\ HasRoom
    /\ Begin(Main, "register_local", NoId, value, "rl_lock")
    /\ UNCHANGED <<idm, map, debug_assertions, locks, last, script, ghost>>

\* the worker threads start; what is registered now stays for the whole run
StartThreads ==
    /\ ~started
    /\ AllIdle
    /\ started' = TRUE
    /\ startCount' = Count(map)
    /\ kept' = owned[Main]
    /\ owned' = [t \in Threads |-> {}]
    /\ UNCHANGED <<idm, map, debug_assertions, locks, threads, last, calls, ghost>>

\* h := register_local(p)
WorkerRegisterLocal(t, value) ==
    /\ started
    /\ calls[t] < MaxCalls
    /\ HasRoom
    /\ Begin(t, "register_local", NoId, value, "rl_lock")
    /\ calls' = [calls EXCEPT ![t] = @ + 1]
    /\ UNCHANGED <<idm, map, debug_assertions, locks, last, owned, kept, started,
                   startCount, ghost>>

\* unregister(h), h a handle this thread got from register_local
WorkerUnregister(t, id) ==
    /\ started
    /\ id \in owned[t]
    /\ id.epoch < MaxEpoch
    /\ Begin(t, "unregister", id, NoValue, "un_write")
    /\ owned' = [owned EXCEPT ![t] = @ \ {id}]
    /\ UNCHANGED <<idm, map, debug_assertions, locks, last, kept, calls, started,
                   startCount, ghost>>

\* a reader looks up a handle that some thread holds
WorkerLookup(t, id) ==
    /\ started
    /\ id \in Held
    /\ Begin(t, "lookup", id, NoValue, "rd_lock")
    /\ UNCHANGED <<idm, map, debug_assertions, locks, last, script, ghost>>

\* ------------------------------------------------------- specifications
\* Registry::default() (Hub::default() builds one per resource kind)
Constructed ==
    /\ free = <<>>
    /\ epochs = <<>>
    /\ map = [i \in Indices |-> NoEntry]
    /\ debug_assertions \in BOOLEAN
    /\ idLock = NoThread
    /\ wLock = NoThread
    /\ rLock = {}
    /\ pc = [t \in Threads |-> "idle"]
    /\ call = [t \in Threads |-> NoCall]
    /\ last = NoResult
    /\ owned = [t \in Threads |-> {}]
    /\ kept = {}
    /\ calls = [t \in Threads |-> 0]
    /\ startCount = 0
    /\ freed = {}
    /\ minted = {}
    /\ issued = [i \in Indices |-> 0]
    /\ run = <<>>
    /\ peak = 0

\* one caller: register, register_local, unregister and lookup with any handle
InitSeq == Constructed /\ started = TRUE

NextSeq ==
    \/ \E id \in Handles, value \in Payloads : Register(id, value)
    \/ \E value \in Payloads : RegisterLocal(value)
    \/ \E id \in Handles : Unregister(id)
    \/ \E id \in Handles : Lookup(id)

SpecSeq == InitSeq /\ [][NextSeq]_vars

\* one caller that never registers under a handle minted elsewhere
NextLocal ==
    \/ \E value \in Payloads : RegisterLocal(value)
    \/ \E id \in Handles : Unregister(id)
    \/ \E id \in Handles : Lookup(id)

SpecLocal == InitSeq /\ [][NextLocal]_vars

\* an identity manager used on its own, free() given any handle
NextIdm ==
    \/ Alloc
    \/ \E id \in Handles : Free(id)

SpecIdm == InitSeq /\ [][NextIdm]_vars

\* threads that register_local and unregister the handles they hold, and readers
InitLive == Constructed /\ started = FALSE

NextLive ==
    \/ SetupRegisterLocal(PayloadOf(Main))
    \/ StartThreads
    \/ \E t \in Threads : WorkerRegisterLocal(t, PayloadOf(t))
    \/ \E t \in Threads, id \in Handles : WorkerUnregister(t, id)
    \/ \E t \in Threads, id \in Handles : WorkerLookup(t, id)
    \/ \E t \in Threads : Step(t)

SpecLive == InitLive /\ [][NextLive]_vars

\* ------------------------------- threads that make any call with any handle
\* (each thread makes up to MaxCalls calls)
CallRegister(t, id, value) ==
    /\ calls[t] < MaxCalls
    /\ Begin(t, "register", id, value, "reg_write")
    /\ calls' = [calls EXCEPT ![t] = @ + 1]
    /\ UNCHANGED <<idm, map, debug_assertions, locks, last, owned, kept, started,
                   startCount, ghost>>

CallRegisterLocal(t, value) ==
    /\ calls[t] < MaxCalls
    /\ HasRoom
    /\ Begin(t, "register_local", NoId, value, "rl_lock")
    /\ calls' = [calls EXCEPT ![t] = @ + 1]
    /\ UNCHANGED <<idm, map, debug_assertions, locks, last, owned, kept, started,
                   startCount, ghost>>

CallUnregister(t, id) ==
    /\ calls[t] < MaxCalls
    /\ id.epoch < MaxEpoch
    /\ Begin(t, "unregister", id, NoValue, "un_write")
    /\ calls' = [calls EXCEPT ![t] = @ + 1]
    /\ UNCHANGED <<idm, map, debug_assertions, locks, last, owned, kept, started,
                   startCount, ghost>>

CallLookup(t, id) ==
    /\ calls[t] < MaxCalls
    /\ Begin(t, "lookup", id, NoValue, "rd_lock")
    /\ calls' = [calls EXCEPT ![t] = @ + 1]
    /\ UNCHANGED <<idm, map, debug_assertions, locks, last, owned, kept, started,
                   startCount, ghost>>

NextAny ==
    \/ \E t \in Threads, id \in Handles : CallRegister(t, id, PayloadOf(t))
    \/ \E t \in Threads : CallRegisterLocal(t, PayloadOf(t))
    \/ \E t \in Threads, id \in Handles : CallUnregister(t, id)
    \/ \E t \in Threads, id \in Handles : CallLookup(t, id)
    \/ \E t \in Threads : Step(t)

SpecAny == InitSeq /\ [][NextAny]_vars

\* a thread that is not waiting for a lock runs on, a thread whose lock stays
\* available gets it (parking_lot's Mutex and RwLock are eventually fair), and a
\* reader drops its guard in the end
Fairness == \A t \in Threads : WF_vars(Step(t))

SpecFair == InitSeq /\ [][NextAny]_vars /\ Fairness

\* ------------------------------------------------------------- claims
\* C1 (SpecLocal): once free has accepted a handle h, a lookup of h, a free of h
\* and an unregister of h all fail, whether the index of h is vacant or holds a
\* newer handle's entry.
C1_StaleHandleRejected ==
    \A h \in freed :
        /\ ~LookupRun(Reg, h).ok
        /\ ~FreeOk(free, epochs, debug_assertions, h)
        /\ ~UnregisterRun(Reg, debug_assertions, h).ok

\* a lookup of a freed handle has just failed on an index that a later
\* register_local gave to a handle with another epoch
C1_Witness ==
    /\ last.op = "lookup"
    /\ ~last.ok
    /\ last.id \in freed
    /\ Occupied(map, last.id.index)
    /\ map[last.id.index].epoch # last.id.epoch

\* C2 (SpecLocal): when register_local(p) returns h, a lookup of h returns p, an
\* unregister of h returns p, and a lookup of h after that unregister fails.
C2_RoundTrip ==
    \A p \in Payloads :
        Room(free, epochs) =>
            LET r == RegisterLocalRun(Reg, p)
                l == LookupRun(r.reg, r.id)
                u == UnregisterRun(l.reg, debug_assertions, r.id)
            IN  r.ok =>
                    /\ l.ok /\ l.value = p
                    /\ u.ok /\ u.value = p
                    /\ ~LookupRun(u.reg, r.id).ok

\* unregister has just returned the payload of a handle of a recycled index, and a
\* lookup of that handle now fails
C2_Witness ==
    /\ last.op = "unregister"
    /\ last.ok
    /\ last.value = "B"
    /\ last.id.epoch = 2
    /\ ~LookupRun(Reg, last.id).ok

\* C3 (SpecLive): while threads register_local and unregister only handles they
\* got themselves, no register_local or unregister fails an assertion, and when
\* every thread is done and holds no handle the storage has as many entries as
\* when the threads started.
C3_ConcurrentDisjoint ==
    /\ last.op \in {"register_local", "unregister"} => last.ok
    /\ (started /\ AllIdle /\ \A t \in Threads : owned[t] = {}) => Count(map) = startCount

\* every thread has registered and unregistered at least once, next to an entry
\* that was there from the start
C3_Witness ==
    /\ started
    /\ AllIdle
    /\ startCount = 1
    /\ \A t \in Threads : calls[t] >= 1 /\ owned[t] = {}
    /\ Count(map) = 1

\* C4 (SpecLive): as long as a reader holds the read lock after looking up h, the
\* entry at h's index is still h's own (same epoch) and holds the payload the
\* reader saw; no unregister or register_local of another thread changes it.
C4_ReaderKeepsPayload ==
    \A t \in Threads :
        pc[t] = "rd_hold" =>
            /\ IndexOk(map, call[t].id)
            /\ IndexValue(map, call[t].id) = call[t].value

\* a reader holds its reference while another thread's unregister of the same
\* handle waits for the write lock
C4_Witness ==
    \E t, u \in Threads :
        /\ pc[t] = "rd_hold"
        /\ pc[u] = "un_write"
        /\ call[u].id = call[t].id

\* a register_local that has allocated its handle and not yet returned it
InFlight(t) == call[t].op = "register_local" /\ pc[t] \in {"reg_write", "reg_insert"}

\* C5 (SpecLive): handles that register_local returned (or is about to return)
\* and that were not given to unregister have pairwise different indices, and no
\* handle is held twice.
C5_UniqueHandles ==
    /\ \A g, h \in Held : g # h => g.index # h.index
    /\ \A t, u \in Threads : t # u => owned[t] \cap owned[u] = {}
    /\ \A t \in Threads : kept \cap owned[t] = {}
    /\ \A t \in Threads :
           InFlight(t) =>
               /\ \A h \in Held : h.index # call[t].id.index
               /\ \A u \in Threads :
                      (u # t /\ InFlight(u)) => call[u].id.index # call[t].id.index

\* two register_local calls are under way at once, one on a recycled index
C5_Witness ==
    \E t, u \in Threads :
        /\ t # u
        /\ InFlight(t)
        /\ InFlight(u)
        /\ call[t].id.epoch > 1

\* the indices of the handles in run are pairwise distinct
DistinctRun == \A j, k \in 1 .. Len(run) : j # k => run[j].index # run[k].index

\* C6 (SpecIdm), as claimed: from any reachable state, the handles returned by
\* alloc() calls with no free() between them have pairwise distinct indices.
C6_AllocUnique == DistinctRun

\* C6 (SpecIdm), amended: the same, provided every handle free() has accepted
\* was one that alloc() had returned.
C6_AllocUniqueMinted == freed \subseteq minted => DistinctRun

\* two allocs in a row after a free: one recycles, one grows
C6_Witness ==
    /\ Len(run) = 2
    /\ freed # {}
    /\ freed \subseteq minted
    /\ run[1].epoch = 2

\* C7 (SpecIdm): when alloc() returns a handle for an index whose previous handle
\* has been freed, its epoch is greater than the previous handle's; and no step
\* shortens epochs or lowers an entry of it.
C7_EpochMonotonic ==
    [][ /\ Len(epochs') >= Len(epochs)
        /\ \A k \in 1 .. Len(epochs) : epochs'[k] >= epochs[k]
        /\ Len(run') = Len(run) + 1 =>
               LET h == run'[Len(run')]
               IN  (issued[h.index] # 0 /\ Id(h.index, issued[h.index]) \in freed)
                       => h.epoch > issued[h.index]
      ]_vars

\* alloc() has returned three handles for index 0, each after a free of the one
\* before
C7_Witness ==
    /\ issued[0] = 3
    /\ {Id(0, 1), Id(0, 2), Id(0, 3)} \subseteq minted
    /\ {Id(0, 1), Id(0, 2)} \subseteq freed

\* C8 (SpecLocal): when unregister(h1) succeeds and register_local(p) comes next,
\* it returns the handle of h1's index with h1's epoch plus one; then a lookup of
\* h1 fails and a lookup of the new handle returns p.
C8_Recycling ==
    \A h1 \in Handles, p \in Payloads :
        LET u == UnregisterRun(Reg, debug_assertions, h1)
            r == RegisterLocalRun(u.reg, p)
        IN  u.ok =>
                /\ r.ok
                /\ r.id = Id(h1.index, h1.epoch + 1)
                /\ ~LookupRun(r.reg, h1).ok
                /\ LookupRun(r.reg, r.id).ok
                /\ LookupRun(r.reg, r.id).value = p

\* register_local has just returned the recycled handle of a freed one while
\* another index waits in the free list
C8_Witness ==
    /\ last.op = "register_local"
    /\ last.ok
    /\ last.id.epoch = 2
    /\ Id(last.id.index, 1) \in freed
    /\ Len(free) = 1
    /\ LookupRun(Reg, last.id).value = last.value

\* C9 (SpecSeq), as claimed: a register_local call either returns, or fails and
\* leaves the free list, the epochs and the storage as they were.
C9_AllOrNothing ==
    [][ \A p \in Payloads :
            RegisterLocal(p) =>
                \/ last'.ok
                \/ (free' = free /\ epochs' = epochs /\ map' = map)
      ]_vars

\* C10 (SpecSeq), as claimed: register(id, v) fails exactly when the index holds
\* an entry, a failing call leaves the storage as it was, and a call that returns
\* has stored (v, id.epoch).
C10_RegisterOccupied ==
    [][ \A id \in Handles, v \in Payloads :
            Register(id, v) =>
                /\ last'.ok <=> ~Occupied(map, id.index)
                /\ ~last'.ok => map' = map
                /\ last'.ok => map'[id.index] = [value |-> v, epoch |-> id.epoch]
      ]_vars

\* C11 (SpecLocal), as claimed: unregister(h) given a handle whose index holds an
\* entry with another epoch fails and changes nothing: the entry stays in the
\* storage, the free list and the epochs are as they were, and the handle of the
\* entry still resolves.
C11_FailedUnregisterNoEffect ==
    [][ \A id \in Handles :
            (Unregister(id) /\ Occupied(map, id.index) /\ map[id.index].epoch # id.epoch) =>
                /\ ~last'.ok
                /\ map' = map
                /\ free' = free
                /\ epochs' = epochs
                /\ IndexOk(map', Id(id.index, map[id.index].epoch))
      ]_vars

\* C12 (SpecSeq), as claimed: after any register, register_local and unregister
\* calls, a handle whose epoch is lower than the identity manager's current epoch
\* of its index does not resolve: contains is false and a lookup fails.
C12_PermanentStaleness ==
    \A h \in Handles :
        (h.index < Len(epochs) /\ h.epoch < epochs[h.index + 1]) =>
            /\ ~Contains(map, h)
            /\ ~LookupRun(Reg, h).ok

\* an unregister that has removed its entry and not yet freed its index
Unregistering(t) == pc[t] \in {"un_lock", "un_free"}

\* C13 (SpecLive), as claimed: the allocated indices and the indices present in
\* the storage are the same sets, except while some unregister is between its
\* removal and its free.
C13_AgreementUnregisterOnly ==
    Allocated(free, epochs) # Present(map) => \E t \in Threads : Unregistering(t)

\* C13 (SpecLive), amended: the allocated indices are exactly the indices present
\* in the storage, those of the unregister calls between removal and free, and
\* those of the register_local calls between alloc and insert.
C13_Agreement ==
    Allocated(free, epochs) =
        Present(map)
        \cup {call[t].id.index : t \in {u \in Threads : Unregistering(u)}}
        \cup {call[t].id.index : t \in {u \in Threads : InFlight(u)}}

\* the sets differ while a register_local waits for the write lock and no
\* unregister is under way
C13_Witness ==
    /\ \E t \in Threads : InFlight(t) /\ pc[t] = "reg_write"
    /\ \A t \in Threads : ~Unregistering(t)
    /\ Allocated(free, epochs) # Present(map)
    /\ Present(map) # {}

\* C14 (SpecLive): after every step no index of the free list holds an entry in
\* the storage; and a step that pushes an index onto the free list finds the
\* entry of that index already removed and leaves the storage alone.
C14_RemoveBeforeFree ==
    [][ /\ \A i \in Range(free') : ~Occupied(map', i)
        /\ Len(free') > Len(free) =>
               /\ ~Occupied(map, free'[Len(free')])
               /\ map' = map
      ]_vars

\* an unregister has just pushed its index onto the free list while another
\* entry stays in the storage
C14_Witness ==
    /\ last.op = "unregister"
    /\ last.ok
    /\ Len(free) >= 1
    /\ \A i \in Range(free) : ~Occupied(map, i)
    /\ Present(map) # {}

\* C15 (SpecAny): no thread holds the identity lock and the storage lock (for
\* write or for read) at the same time, whatever calls the threads make; so
\* register_local has released the identity lock when it takes the write lock,
\* and unregister has released the write lock when it takes the identity lock.
C15_LockingDiscipline ==
    \A t \in Threads : ~(idLock = t /\ (wLock = t \/ t \in rLock))

\* a register_local holds the write lock while an unregister of another thread
\* holds the identity lock
C15_Witness ==
    \E t, u \in Threads :
        /\ call[t].op = "register_local" /\ pc[t] = "reg_insert" /\ wLock = t
        /\ call[u].op = "unregister" /\ pc[u] = "un_free" /\ idLock = u

\* some call is under way and no thread can take a step
Deadlocked ==
    /\ \E t \in Threads : pc[t] # "idle"
    /\ \A t \in Threads : ~ENABLED Step(t)

\* C16 (SpecFair): no reachable state is a deadlock, and with fair locks and
\* readers that drop their guard every call that has begun comes to its end, by
\* returning or by failing an assertion.
C16_Completion ==
    /\ []~Deadlocked
    /\ \A t \in Threads : (pc[t] # "idle") ~> (pc[t] = "idle")

\* an unregister waits for the write lock while a reader holds its guard
C16_Witness ==
    \E t, u \in Threads :
        /\ pc[t] = "un_write"
        /\ pc[u] = "rd_hold"
        /\ rLock = {u}
        /\ ~ENABLED Step(t)

\* C17 (SpecIdm): a step lengthens epochs only by one slot and only when the free
\* list is empty, no step shortens it, and after every step the length of epochs
\* is the largest number of handles that were allocated and not yet freed at one
\* time.
C17_SlotsArePeak ==
    [][ /\ Len(epochs') >= Len(epochs)
        /\ Len(epochs') > Len(epochs) => (free = <<>> /\ Len(epochs') = Len(epochs) + 1)
        /\ Len(epochs') = peak'
      ]_vars

\* alloc() has returned more handles over time than there are slots
C17_Witness ==
    /\ Len(epochs) = 2
    /\ peak = 2
    /\ Cardinality(minted) > 2
    /\ Cardinality(Live(minted, freed)) = 1

\* the handles of slot i that free() has accepted
FreedOf(i) == {h \in freed : h.index = i}

\* C18 (SpecIdm): a slot is appended with epoch 1; a free() that is accepted
\* frees a handle not freed before and adds exactly 1 to the epoch of one slot;
\* so after every step each epochs[i] is 1 plus the number of accepted frees of
\* slot i and at least 1, and no handle alloc() returned has epoch 0.
C18_EpochNumbering ==
    [][ /\ Len(epochs') > Len(epochs) => epochs'[Len(epochs')] = 1
        /\ (last'.op = "free" /\ last'.ok) =>
               /\ Cardinality(freed') = Cardinality(freed) + 1
               /\ \E k \in 1 .. Len(epochs) : epochs' = [epochs EXCEPT ![k] = @ + 1]
        /\ \A k \in 1 .. Len(epochs') :
               /\ epochs'[k] = 1 + Cardinality({h \in freed' : h.index = k - 1})
               /\ epochs'[k] >= 1
        /\ \A h \in minted' : h.epoch >= 1
      ]_vars

\* slot 0 has been freed twice and slot 1 never
C18_Witness ==
    /\ epochs = <<3, 1>>
    /\ Cardinality(FreedOf(0)) = 2
    /\ FreedOf(1) = {}
    /\ Cardinality(minted) >= 3

\* no index is in the free list twice
NoDuplicate(f) == \A j, k \in 1 .. Len(f) : j # k => f[j] # f[k]

\* C19 (SpecIdm), as claimed: in a debug and in a release build alike, the free
\* list holds no index twice and only indices below the length of epochs, and a
\* handle that free() has accepted is rejected by the epoch comparison alone.
C19_FreeListWellFormed ==
    /\ NoDuplicate(free)
    /\ \A k \in 1 .. Len(free) : free[k] < Len(epochs)
    /\ \A h \in freed : ~FreeOk(free, epochs, FALSE, h)

\* C19 (SpecIdm), amended: the free list holds only indices below the length of
\* epochs, and a handle that free() has accepted is rejected by the epoch
\* comparison alone; the free list holds no index twice in a debug build, and in
\* a release build as long as free() has accepted only handles alloc() returned.
C19_FreeListWellFormedMinted ==
    /\ (debug_assertions \/ freed \subseteq minted) => NoDuplicate(free)
    /\ \A k \in 1 .. Len(free) : free[k] < Len(epochs)
    /\ \A h \in freed : ~FreeOk(free, epochs, FALSE, h)

\* in a release build, with both slots in the free list, a second free of a
\* handle has just been rejected
C19_Witness ==
    /\ ~debug_assertions
    /\ freed \subseteq minted
    /\ Len(free) = 2
    /\ last.op = "free"
    /\ ~last.ok

\* C20 (SpecLive): every entry in the storage carries the identity manager's
\* current epoch of its index, and its index is an existing slot that is not in
\* the free list.
C20_StoredEpochAgrees ==
    \A i \in Present(map) :
        /\ i < Len(epochs)
        /\ map[i].epoch = epochs[i + 1]
        /\ i \notin Range(free)

\* an entry of a recycled index is in the storage while the entry of another
\* index has been removed by an unregister that has not yet freed it
C20_Witness ==
    /\ \E i \in Present(map) : map[i].epoch = 2 /\ epochs[i + 1] = 2
    /\ \E t \in Threads : Unregistering(t)
====
